---- MODULE Spec2Model ----
(***************************************************************************)
(* Model of backend/server.py: the notes backend with its LLM-backed       *)
(* extractions (summary, tag suggestions, insights), and of the            *)
(* structured-extraction parsers described in spec.md.                     *)
(***************************************************************************)
EXTENDS Integers, Sequences, FiniteSets, TLC

VARIABLES
    users,      \* db.users: the set of stored user documents
    notes,      \* db.notes: the set of stored note documents
    tokens,     \* the JWT payloads issued so far
    uuidCtr,    \* the number of uuid4() values drawn so far
    pc,         \* per request handler: its position (the await it is suspended at)
    loc,        \* per request handler: its arguments and local variables
    resp,       \* per request handler: the HTTP response it produced
    sent,       \* per live chat (by session id): the send_message calls made on it
    raw,        \* parser specifications: the raw LLM text
    out,        \* parser specifications: the value computed from raw
    stage       \* parser specifications: the step reached

vars == <<users, notes, tokens, uuidCtr, pc, loc, resp, sent, raw, out, stage>>

serverVars == <<users, notes, tokens, uuidCtr, pc, loc, resp, sent>>
parserVars == <<raw, out, stage>>

(***************************************************************************)
(* Bounds                                                                  *)
(***************************************************************************)
MaxRawLen == 5
MaxUuid == 3

(***************************************************************************)
(* Characters and strings.  A string is a sequence of one-character        *)
(* strings.                                                                *)
(***************************************************************************)
Alphabet == {"[", "]", ",", "\"", "a", "A", " ", "1", "\n"}

Whitespace == {" ", "\n"}

Digits == {"1"}

RawTexts == UNION {[1..n -> Alphabet] : n \in 0..MaxRawLen}

\* re: '.' matches every character except a newline
Dot(c) == c # "\n"

\* re.search(r'\[.*\]', s): the leftmost '[' that has a ']' after it on the
\* same line, extended greedily to the last ']' of that line.
\* The result is <<>> (no match) or <<i, j>>, the first and last index.
RegexCloses(s, i) ==
    {j \in (i + 1)..Len(s) :
        /\ s[j] = "]"
        /\ \A k \in (i + 1)..(j - 1) : Dot(s[k])}

Max(S) == CHOOSE x \in S : \A y \in S : y <= x

Min(S) == CHOOSE x \in S : \A y \in S : x <= y

RegexSearch(s) ==
    LET starts == {i \in 1..Len(s) : s[i] = "[" /\ RegexCloses(s, i) # {}}
    IN  IF starts = {} THEN <<>>
        ELSE LET i == Min(starts) IN <<i, Max(RegexCloses(s, i))>>

(***************************************************************************)
(* json.loads on the characters of Alphabet.  A parse result is            *)
(* [ok, val, next]; a value is [t |-> "str" | "num" | "list", v |-> ...].  *)
(***************************************************************************)
JsonError == [ok |-> FALSE, val |-> [t |-> "err", v |-> <<>>], next |-> 0]

JsonOk(t, v, next) == [ok |-> TRUE, val |-> [t |-> t, v |-> v], next |-> next]

\* the decoder's whitespace skip: the first index >= i that holds no whitespace
SkipWs(s, i) ==
    Min({j \in i..(Len(s) + 1) :
            /\ j = Len(s) + 1 \/ s[j] \notin Whitespace
            /\ \A k \in i..(j - 1) : s[k] \in Whitespace})

\* py_scanstring (strict): up to the closing quote; a control character is an error
ScanString(s, i) ==
    LET ends == {j \in (i + 1)..Len(s) : s[j] = "\""}
    IN  IF ends = {} THEN JsonError
        ELSE LET j == Min(ends)
             IN  IF \E k \in (i + 1)..(j - 1) : s[k] = "\n" THEN JsonError
                 ELSE JsonOk("str", SubSeq(s, i + 1, j - 1), j + 1)

\* NUMBER_RE: the maximal run of digits
ScanNumber(s, i) ==
    LET j == Min({k \in i..(Len(s) + 1) : k = Len(s) + 1 \/ s[k] \notin Digits})
    IN  JsonOk("num", SubSeq(s, i, j - 1), j)

RECURSIVE ScanOnce(_, _), ScanItems(_, _, _)

\* JSONArray: the values after the opening bracket, acc being those read so far
ScanItems(s, i, acc) ==
    LET item == ScanOnce(s, i)
    IN  IF ~item.ok THEN JsonError
        ELSE LET j == SkipWs(s, item.next)
                 got == Append(acc, item.val)
             IN  IF j > Len(s) THEN JsonError
                 ELSE IF s[j] = "]" THEN JsonOk("list", got, j + 1)
                 ELSE IF s[j] = "," THEN ScanItems(s, SkipWs(s, j + 1), got)
                 ELSE JsonError

\* scan_once: one JSON value starting at index i
ScanOnce(s, i) ==
    IF i > Len(s) THEN JsonError
    ELSE IF s[i] = "\"" THEN ScanString(s, i)
    ELSE IF s[i] = "[" THEN
        LET j == SkipWs(s, i + 1)
        IN  IF j > Len(s) THEN JsonError
            ELSE IF s[j] = "]" THEN JsonOk("list", <<>>, j + 1)
            ELSE ScanItems(s, j, <<>>)
    ELSE IF s[i] \in Digits THEN ScanNumber(s, i)
    ELSE JsonError

\* json.loads: one value, surrounded by whitespace only ("Extra data" otherwise)
JsonLoads(s) ==
    LET r == ScanOnce(s, SkipWs(s, 1))
    IN  IF ~r.ok THEN JsonError
        ELSE IF SkipWs(s, r.next) # Len(s) + 1 THEN JsonError
        ELSE r

\* str.lower
LowerChar(c) == IF c = "A" THEN "a" ELSE c

Lower(s) == [i \in 1..Len(s) |-> LowerChar(s[i])]

\* str.strip
Strip(s) ==
    LET keep == {i \in 1..Len(s) : s[i] \notin Whitespace}
    IN  IF keep = {} THEN <<>> ELSE SubSeq(s, Min(keep), Max(keep))

\* json.dumps of a list of strings (default separators)
RECURSIVE JoinQuoted(_)
JoinQuoted(tags) ==
    IF tags = <<>> THEN <<>>
    ELSE LET q == <<"\"">> \o Head(tags) \o <<"\"">>
         IN  IF Len(tags) = 1 THEN q
             ELSE q \o <<",", " ">> \o JoinQuoted(Tail(tags))

JsonDumps(tags) == <<"[">> \o JoinQuoted(tags) \o <<"]">>

(***************************************************************************)
(* The LLM provider.  A reply is what chat.send_message does: it raises,   *)
(* or it returns a text.                                                   *)
(***************************************************************************)
Raised == [raised |-> TRUE, value |-> <<>>]

Returned(v) == [raised |-> FALSE, value |-> v]

\* the list comprehension of generate_tag_suggestions
RECURSIVE TagList(_)
TagList(items) ==
    IF items = <<>> THEN <<>>
    ELSE LET rest == TagList(Tail(items))
         IN  IF Head(items).t = "str"
             THEN <<Strip(Lower(Head(items).v))>> \o rest
             ELSE rest

\* the try block of generate_tag_suggestions, reply being send_message's outcome
TagsTryBlock(reply) ==
    IF reply.raised THEN Raised
    ELSE LET m == RegexSearch(reply.value)
         IN  IF m = <<>> THEN Returned(<<>>)
             ELSE LET tags == JsonLoads(SubSeq(reply.value, m[1], m[2]))
                  IN  IF ~tags.ok THEN Raised
                      ELSE Returned(TagList(tags.val.v))

\* variant: no except clause
GenerateTagSuggestions_NoExcept(reply) == TagsTryBlock(reply)

\* generate_tag_suggestions: except Exception: return []
GenerateTagSuggestions(reply) ==
    LET r == TagsTryBlock(reply)
    IN  IF r.raised THEN Returned(<<>>) ELSE r

(***************************************************************************)
(* The server: values.  None is <<>> and a present optional value v is     *)
(* <<v>>.                                                                  *)
(***************************************************************************)
\* the request handlers that run concurrently
Procs == {1, 2}

None == <<>>

Some(v) == <<v>>

Emails == {"a@x.io", "b@x.io"}

Passwords == {"pw1", "pw2"}

Names == {"n"}

\* the clock readings of datetime.now: a document is created at T1, and
\* updated at the later T2
CreateTimes == {"T1"}

UpdateTimes == {"T2"}

\* len(content), of the contents the model sends: "c100" has 100 characters,
\* "c101" and "d101" have 101
StrLen(c) ==
    CASE c = "c100" -> 100
      [] c \in {"c101", "d101"} -> 101

SummaryThreshold == 100

\* hash_password: hashlib.sha256(password.encode()).hexdigest()
HashPassword(password) == <<"sha256", password>>

\* variant: every password verifies
VerifyPassword_Always(password, hashed) == TRUE

\* verify_password
VerifyPassword(password, hashed) == HashPassword(password) = hashed

\* create_jwt_token: the payload that is signed
CreateJwtToken(user) == [user_id |-> user.id, email |-> user.email]

\* datetime.isoformat and datetime.fromisoformat
IsoFormat(t) == <<"iso", t>>

FromIsoFormat(x) == x[2]

\* prepare_for_mongo, on a Note's or a User's created_at and updated_at
PrepareForMongo(data) ==
    [k \in DOMAIN data |->
        IF k \in {"created_at", "updated_at"} THEN IsoFormat(data[k]) ELSE data[k]]

\* parse_from_mongo, on a stored document
ParseFromMongo(item) ==
    [k \in DOMAIN item |->
        IF k \in {"created_at", "updated_at"} THEN FromIsoFormat(item[k]) ELSE item[k]]

\* the texts the server handles as summaries and insights
FailedSummary == [kind |-> "literal", of |-> "Summary generation failed"]

FailedInsights == [kind |-> "literal", of |-> "Insight generation failed"]

\* what the provider returns when asked to summarise / analyse content
LlmText(kind, content) == [kind |-> kind, of |-> content]

\* the raw texts the provider may return when asked for tags
TagReplies ==
    {<<"[", "\"", "A", "\"", "]">>, <<"[", "1", "]">>, <<"[", "a", "]">>, <<"a">>}

\* chat.send_message: it raises, or it returns a text
LlmReplies(kind, content) ==
    {Raised} \cup
    (IF kind = "tags" THEN {Returned(t) : t \in TagReplies}
     ELSE {Returned(LlmText(kind, content))})

\* generate_ai_summary: the response, or the literal when anything raised
GenerateAiSummary(reply) ==
    IF reply.raised THEN FailedSummary ELSE reply.value

\* generate_insights
GenerateInsights(reply) ==
    IF reply.raised THEN FailedInsights ELSE reply.value

\* variant: one session id per kind, whatever uuid4() returns
SessionId_Shared(kind, uuid) == <<kind, 0>>

\* session_id=f"summary_{uuid.uuid4()}", uuid being the value uuid4() returns
SessionId(kind, uuid) == <<kind, uuid>>

\* variant: the threshold compared with >=
NeedsSummary_AtLeast(content) == StrLen(content) >= SummaryThreshold

\* create_note: len(note_data.content) > 100
NeedsSummary(content) == StrLen(content) > SummaryThreshold

\* variant: a summary for every content supplied, whatever its length
UpdateNeedsSummary_Any(content) == content # None

\* update_note: note_update.content and len(note_update.content) > 100
UpdateNeedsSummary(content) ==
    content # None /\ StrLen(content[1]) > SummaryThreshold

(***************************************************************************)
(* The server: state of a request handler.                                 *)
(***************************************************************************)
NoData == [title |-> None, content |-> None, tags |-> None, is_favorite |-> None]

NoUpdate ==
    [title |-> None, content |-> None, tags |-> None, is_favorite |-> None,
     updated_at |-> None, summary |-> None]

IdleLoc ==
    [op |-> "", user |-> 0, email |-> "", password |-> "", name |-> "",
     note_id |-> 0, action |-> "", data |-> NoData, found |-> None,
     update_data |-> NoUpdate, content |-> "", summary |-> None,
     doc |-> None, session |-> None, calls |-> 0, returned |-> 0,
     llm_raised |-> FALSE]

NoResp ==
    [status |-> 0, detail |-> "", user |-> None, token |-> None, note |-> None,
     notes |-> None, result |-> None, action |-> ""]

HttpError(code, detail) == [NoResp EXCEPT !.status = code, !.detail = detail]

ServerIdle ==
    /\ users = {}
    /\ notes = {}
    /\ tokens = {}
    /\ uuidCtr = 0
    /\ pc = [p \in Procs |-> "idle"]
    /\ loc = [p \in Procs |-> IdleLoc]
    /\ resp = [p \in Procs |-> NoResp]
    /\ sent = <<>>

ParserIdle ==
    /\ raw = <<>>
    /\ out = <<>>
    /\ stage = "none"

\* uuid.uuid4(): a value never returned before
Uuid4 == uuidCtr + 1

\* chat.send_message on the chat of session s
Send(s) ==
    IF s \in DOMAIN sent THEN [sent EXCEPT ![s] = @ + 1]
    ELSE [x \in DOMAIN sent \cup {s} |-> IF x = s THEN 1 ELSE sent[x]]

\* a generate_* function returns: its chat object is dropped
Drop(session) == [x \in DOMAIN sent \ {session[1]} |-> sent[x]]

\* a request ends: its response is resp[p] until it is delivered
Respond(p, r) ==
    /\ resp' = [resp EXCEPT ![p] = r]
    /\ pc' = [pc EXCEPT ![p] = "done"]

\* db.users.find_one({...}) / db.notes.find_one({...}): one matching document
FindOne(docs, found) ==
    IF docs = {} THEN found = None ELSE \E d \in docs : found = Some(d)

\* a response leaves the server as soon as its handler returns: no other
\* handler takes a step in between (Deliver commutes with every step)
NoResponsePending == \A q \in Procs : pc[q] # "done"

\* get_current_user: the user of a token the server signed
Authenticated(tok) == tok \in tokens /\ \E u \in users : u.id = tok.user_id

\* a generate_* function begins: LlmChat(session_id=...), then send_message
BeginExtraction(p, l, kind, content, next) ==
    /\ uuidCtr < MaxUuid
    /\ LET s == SessionId(kind, Uuid4)
       IN  /\ sent' = Send(s)
           /\ loc' = [loc EXCEPT ![p] =
                        [l EXCEPT !.session = Some(s), !.content = content,
                                  !.calls = @ + 1]]
    /\ uuidCtr' = uuidCtr + 1
    /\ pc' = [pc EXCEPT ![p] = next]

(***************************************************************************)
(* POST /auth/register                                                     *)
(***************************************************************************)
\* find_one by email, then the check and the construction of the user
RegisterFind(p) ==
    /\ pc[p] = "idle"
    /\ NoResponsePending
    /\ \E email \in Emails, password \in Passwords, name \in Names, found \in {None} \cup {Some(u) : u \in users} :
        /\ FindOne({u \in users : u.email = email}, found)
        /\ LET l == [IdleLoc EXCEPT !.op = "register", !.email = email,
                                    !.password = password, !.name = name]
           IN  IF found # None
               THEN /\ Respond(p, HttpError(400, "Email already registered"))
                    /\ loc' = [loc EXCEPT ![p] = l]
                    /\ UNCHANGED uuidCtr
               ELSE /\ uuidCtr < MaxUuid
                    /\ \E now \in CreateTimes :
                        loc' = [loc EXCEPT ![p] = [l EXCEPT !.doc =
                            Some([id |-> Uuid4, email |-> email, name |-> name,
                                  created_at |-> now])]]
                    /\ uuidCtr' = uuidCtr + 1
                    /\ pc' = [pc EXCEPT ![p] = "register_insert"]
                    /\ UNCHANGED resp
    /\ UNCHANGED <<users, notes, tokens, sent, parserVars>>

\* user_dict with password_hash, as stored
UserDict(user, password) ==
    LET d == PrepareForMongo(user)
    IN  [id |-> d.id, email |-> d.email, name |-> d.name, created_at |-> d.created_at,
         password_hash |-> HashPassword(password)]

\* insert_one, then the token and the response
RegisterInsert(p) ==
    /\ pc[p] = "register_insert"
    /\ NoResponsePending
    /\ LET user == loc[p].doc[1]
           token == CreateJwtToken(user)
       IN  /\ users' = users \cup {UserDict(user, loc[p].password)}
           /\ tokens' = tokens \cup {token}
           /\ Respond(p, [NoResp EXCEPT !.status = 200, !.user = Some(user),
                                        !.token = Some(token),
                                        !.detail = "Registration successful"])
    /\ UNCHANGED <<notes, uuidCtr, loc, sent, parserVars>>

(***************************************************************************)
(* POST /auth/login                                                        *)
(***************************************************************************)
\* User(**{k: v for k, v in user_doc.items() if k != "password_hash"})
UserOf(user_doc) ==
    LET d == ParseFromMongo(user_doc)
    IN  [id |-> d.id, email |-> d.email, name |-> d.name, created_at |-> d.created_at]

\* the response of login, user_doc being what find_one returned
LoginResponse(found, password) ==
    IF found = None THEN HttpError(400, "Invalid email or password")
    ELSE IF ~VerifyPassword(password, found[1].password_hash)
    THEN HttpError(400, "Invalid email or password")
    ELSE [NoResp EXCEPT !.status = 200, !.user = Some(UserOf(found[1])),
                        !.token = Some(CreateJwtToken(UserOf(found[1]))),
                        !.detail = "Login successful"]

Login(p) ==
    /\ pc[p] = "idle"
    /\ NoResponsePending
    /\ \E email \in Emails, password \in Passwords, found \in {None} \cup {Some(u) : u \in users} :
        /\ FindOne({u \in users : u.email = email}, found)
        /\ loc' = [loc EXCEPT ![p] = [IdleLoc EXCEPT !.op = "login", !.email = email,
                                                     !.password = password]]
        /\ LET r == LoginResponse(found, password)
           IN  /\ Respond(p, r)
               /\ tokens' = IF r.token = None THEN tokens
                            ELSE tokens \cup {r.token[1]}
    /\ UNCHANGED <<users, notes, uuidCtr, sent, parserVars>>

(***************************************************************************)
(* POST /notes                                                             *)
(***************************************************************************)
\* the bodies of POST /notes the model sends: a short note with tags, a long
\* note without
NoteCreates ==
    {[NoData EXCEPT !.title = Some("t1"), !.content = Some("c100"),
                    !.tags = Some(<<"x">>)],
     [NoData EXCEPT !.title = Some("t1"), !.content = Some("c101")]}


CreateNote(p) ==
    /\ pc[p] = "idle"
    /\ NoResponsePending
    /\ \E tok \in tokens, note_data \in NoteCreates :
        /\ Authenticated(tok)
        /\ LET l == [IdleLoc EXCEPT !.op = "create_note", !.user = tok.user_id,
                                    !.data = note_data]
           IN  IF NeedsSummary(note_data.content[1])
               THEN BeginExtraction(p, l, "summary", note_data.content[1],
                                    "create_llm")
               ELSE /\ loc' = [loc EXCEPT ![p] = l]
                    /\ pc' = [pc EXCEPT ![p] = "create_insert"]
                    /\ UNCHANGED <<uuidCtr, sent>>
    /\ UNCHANGED <<users, notes, tokens, resp, parserVars>>

\* summary = await generate_ai_summary(note_data.content)
CreateNoteSummary(p) ==
    /\ pc[p] = "create_llm"
    /\ NoResponsePending
    /\ \E reply \in LlmReplies("summary", loc[p].content) :
        loc' = [loc EXCEPT ![p].summary = Some(GenerateAiSummary(reply)),
                           ![p].llm_raised = reply.raised,
                           ![p].returned = @ + 1]
    /\ sent' = Drop(loc[p].session)
    /\ pc' = [pc EXCEPT ![p] = "create_insert"]
    /\ UNCHANGED <<users, notes, tokens, uuidCtr, resp, parserVars>>

\* the status of a successful POST /notes: the route sets no status_code
CreateNoteStatus == 200

\* Note(...), insert_one, return note
CreateNoteInsert(p) ==
    /\ pc[p] = "create_insert"
    /\ NoResponsePending
    /\ uuidCtr < MaxUuid
    /\ \E now \in CreateTimes :
        LET d == loc[p].data
            note == [id |-> Uuid4, user_id |-> loc[p].user, title |-> d.title[1],
                     content |-> d.content[1], summary |-> loc[p].summary,
                     tags |-> IF d.tags = None THEN <<>> ELSE d.tags[1],
                     is_favorite |-> FALSE, created_at |-> now, updated_at |-> now]
        IN  /\ notes' = notes \cup {PrepareForMongo(note)}
            /\ Respond(p, [NoResp EXCEPT !.status = CreateNoteStatus,
                                         !.note = Some(note)])
    /\ uuidCtr' = uuidCtr + 1
    /\ UNCHANGED <<users, tokens, loc, sent, parserVars>>

\* the response leaves the server
Deliver(p) ==
    /\ pc[p] = "done"
    /\ pc' = [pc EXCEPT ![p] = "idle"]
    /\ loc' = [loc EXCEPT ![p] = IdleLoc]
    /\ resp' = [resp EXCEPT ![p] = NoResp]
    /\ UNCHANGED <<users, notes, tokens, uuidCtr, sent, parserVars>>

(***************************************************************************)
(* SpecAuth: registration and login, from the empty database.              *)
(***************************************************************************)
AuthInit == ServerIdle /\ ParserIdle

AuthNext ==
    \/ \E p \in Procs : RegisterFind(p)
    \/ \E p \in Procs : RegisterInsert(p)
    \/ \E p \in Procs : Login(p)
    \/ \E p \in Procs : Deliver(p)

SpecAuth == AuthInit /\ [][AuthNext]_vars

(***************************************************************************)
(* GET, PUT, DELETE /notes/{note_id}                                       *)
(***************************************************************************)
\* the ids a request may name: the uuids drawn so far that are no user's,
\* and 0, an id that was never drawn
NoteIds == {0} \cup {i \in 1..uuidCtr : \A u \in users : u.id # i}

\* variant: the filter on the id alone
Matching_AnyOwner(note_id, user_id) == {n \in notes : n.id = note_id}

\* the filter {"id": note_id, "user_id": current_user.id}
Matching(note_id, user_id) ==
    {n \in notes : n.id = note_id /\ n.user_id = user_id}

NotFound == HttpError(404, "Note not found")

\* Note(**parse_from_mongo(note_doc))
NoteOf(note_doc) == ParseFromMongo(note_doc)

GetNote(p) ==
    /\ pc[p] = "idle"
    /\ NoResponsePending
    /\ \E tok \in tokens, note_id \in NoteIds, found \in {None} \cup {Some(n) : n \in notes} :
        /\ Authenticated(tok)
        /\ FindOne(Matching(note_id, tok.user_id), found)
        /\ loc' = [loc EXCEPT ![p] = [IdleLoc EXCEPT !.op = "get_note",
                        !.user = tok.user_id, !.note_id = note_id, !.found = found]]
        /\ Respond(p, IF found = None THEN NotFound
                      ELSE [NoResp EXCEPT !.status = 200,
                                          !.note = Some(NoteOf(found[1]))])
    /\ UNCHANGED <<users, notes, tokens, uuidCtr, sent, parserVars>>

(***************************************************************************)
(* GET /notes                                                              *)
(***************************************************************************)
\* the characters of the titles and contents the model uses: "c100" is 100
\* times the letter c, "c101" 101 times, "d101" 101 times the letter d
Chars(text) ==
    CASE text = "t1" -> <<"t", "1">>
      [] text = "t2" -> <<"t", "2">>
      [] text \in {"c100", "c101"} -> [i \in 1..StrLen(text) |-> "c"]
      [] text = "d101" -> [i \in 1..StrLen(text) |-> "d"]

Texts == {"t1", "t2", "c100", "c101", "d101"}

\* the search parameter: absent, or a pattern without metacharacters
Searches == {None, Some(<<"T", "2">>), Some(<<"d">>)}

\* "$options": "i"
FoldCase(c) ==
    CASE c = "T" -> "t"
      [] c = "D" -> "d"
      [] c = "C" -> "c"
      [] OTHER -> c

\* {"$regex": pattern, "$options": "i"}: the pattern occurs in the text
Occurs(pattern, text) ==
    \E i \in 1..(Len(text) - Len(pattern) + 1) :
        \A j \in 1..Len(pattern) : FoldCase(text[i + j - 1]) = FoldCase(pattern[j])

\* Occurs, on the patterns and the texts of the model
SearchHits ==
    [pattern \in {q[1] : q \in Searches \ {None}}, text \in Texts |->
        Occurs(pattern, Chars(text))]

\* the tags parameter: absent, or a comma-separated list
TagQueries == {None, Some(<<"y">>), Some(<<"x", ",", " ", "y">>)}

\* tags.split(",")
RECURSIVE SplitComma(_)
SplitComma(s) ==
    LET commas == {i \in 1..Len(s) : s[i] = ","}
    IN  IF commas = {} THEN <<s>>
        ELSE <<SubSeq(s, 1, Min(commas) - 1)>>
             \o SplitComma(SubSeq(s, Min(commas) + 1, Len(s)))

\* tag_list = [tag.strip() for tag in tags.split(",")], as the set of the tag
\* names listed; the tags of the model are one character long
TagListOf(tags) ==
    LET segs == SplitComma(tags)
    IN  {Strip(segs[i])[1] : i \in {k \in 1..Len(segs) : Len(Strip(segs[k])) = 1}}

\* filter_query applied to one stored note
MatchesQuery(n, user_id, search, tags, favorites_only) ==
    /\ n.user_id = user_id
    /\ search # None =>
          SearchHits[search[1], n.title] \/ SearchHits[search[1], n.content]
    /\ tags # None =>
          \E i \in 1..Len(n.tags) : n.tags[i] \in TagListOf(tags[1])
    /\ favorites_only => n.is_favorite = TRUE

\* the place of a stored updated_at in the order of the ISO strings
IsoRank(x) == IF FromIsoFormat(x) = "T1" THEN 1 ELSE 2

\* find(filter).sort("updated_at", -1), read to the end: the matching
\* documents, latest first, documents of equal updated_at in any order
FindSorted(docs) ==
    {q \in [1..Cardinality(docs) -> docs] :
        /\ \A i, j \in DOMAIN q : i # j => q[i] # q[j]
        /\ \A i, j \in DOMAIN q : i < j => IsoRank(q[i].updated_at) >= IsoRank(q[j].updated_at)}

GetNotes(p) ==
    /\ pc[p] = "idle"
    /\ NoResponsePending
    /\ \E tok \in tokens, search \in Searches, tags \in TagQueries, favorites_only \in BOOLEAN :
        /\ Authenticated(tok)
        /\ loc' = [loc EXCEPT ![p] = [IdleLoc EXCEPT !.op = "get_notes",
                                                     !.user = tok.user_id]]
        /\ \E q \in FindSorted({n \in notes :
                    MatchesQuery(n, tok.user_id, search, tags, favorites_only)}) :
             Respond(p, [NoResp EXCEPT !.status = 200,
                            !.notes = Some([i \in DOMAIN q |-> NoteOf(q[i])])])
    /\ UNCHANGED <<users, notes, tokens, uuidCtr, sent, parserVars>>

\* the bodies of PUT /notes/{note_id} the model sends
NoteUpdates ==
    {NoData,
     [NoData EXCEPT !.title = Some("t2")],
     [NoData EXCEPT !.tags = Some(<<"y">>), !.is_favorite = Some(TRUE)],
     [NoData EXCEPT !.content = Some("c100")],
     [NoData EXCEPT !.content = Some("d101")]}

\* update_data: the fields that are not None, and updated_at
UpdateData(note_update, now) ==
    [NoUpdate EXCEPT !.title = note_update.title, !.content = note_update.content,
                     !.tags = note_update.tags,
                     !.is_favorite = note_update.is_favorite,
                     !.updated_at = Some(now)]

\* prepare_for_mongo, on update_data
PrepareUpdate(update_data) ==
    [update_data EXCEPT !.updated_at =
        IF @ = None THEN None ELSE Some(IsoFormat(@[1]))]

\* {"$set": update_data} on one document
ApplySet(doc, update_data) ==
    [k \in DOMAIN doc |->
        IF k \in DOMAIN update_data /\ update_data[k] # None
        THEN update_data[k][1] ELSE doc[k]]

\* find_one, the 404, update_data, and the start of the summary when one is due
UpdateNoteFind(p) ==
    /\ pc[p] = "idle"
    /\ NoResponsePending
    /\ \E tok \in tokens, note_id \in NoteIds, note_update \in NoteUpdates, found \in {None} \cup {Some(n) : n \in notes} :
        /\ Authenticated(tok)
        /\ FindOne(Matching(note_id, tok.user_id), found)
        /\ LET l == [IdleLoc EXCEPT !.op = "update_note", !.user = tok.user_id,
                        !.note_id = note_id, !.data = note_update]
           IN  IF found = None
               THEN /\ Respond(p, NotFound)
                    /\ loc' = [loc EXCEPT ![p] = l]
                    /\ UNCHANGED <<uuidCtr, sent>>
               ELSE \E now \in UpdateTimes :
                    LET lu == [l EXCEPT !.update_data = UpdateData(note_update, now)]
                    IN  IF UpdateNeedsSummary(note_update.content)
                        THEN /\ BeginExtraction(p, lu, "summary",
                                                note_update.content[1], "update_llm")
                             /\ UNCHANGED resp
                        ELSE /\ loc' = [loc EXCEPT ![p] = lu]
                             /\ pc' = [pc EXCEPT ![p] = "update_write"]
                             /\ UNCHANGED <<uuidCtr, sent, resp>>
    /\ UNCHANGED <<users, notes, tokens, parserVars>>

\* update_data["summary"] = await generate_ai_summary(note_update.content)
UpdateNoteSummary(p) ==
    /\ pc[p] = "update_llm"
    /\ NoResponsePending
    /\ \E reply \in LlmReplies("summary", loc[p].content) :
        loc' = [loc EXCEPT ![p].update_data.summary =
                                Some(Some(GenerateAiSummary(reply))),
                           ![p].llm_raised = reply.raised,
                           ![p].returned = @ + 1]
    /\ sent' = Drop(loc[p].session)
    /\ pc' = [pc EXCEPT ![p] = "update_write"]
    /\ UNCHANGED <<users, notes, tokens, uuidCtr, resp, parserVars>>

\* update_one({"id": note_id, "user_id": ...}, {"$set": update_data})
UpdateNoteWrite(p) ==
    /\ pc[p] = "update_write"
    /\ NoResponsePending
    /\ notes' = {IF n \in Matching(loc[p].note_id, loc[p].user)
                 THEN ApplySet(n, PrepareUpdate(loc[p].update_data)) ELSE n :
                 n \in notes}
    /\ pc' = [pc EXCEPT ![p] = "update_reread"]
    /\ UNCHANGED <<users, tokens, uuidCtr, loc, resp, sent, parserVars>>

\* find_one again, parse_from_mongo, return Note(**updated_doc)
UpdateNoteReread(p) ==
    /\ pc[p] = "update_reread"
    /\ NoResponsePending
    /\ \E found \in {None} \cup {Some(n) : n \in notes} :
        /\ FindOne(Matching(loc[p].note_id, loc[p].user), found)
        /\ Respond(p, IF found = None
                      THEN HttpError(500, "Internal Server Error")
                      ELSE [NoResp EXCEPT !.status = 200,
                                          !.note = Some(NoteOf(found[1]))])
    /\ UNCHANGED <<users, notes, tokens, uuidCtr, loc, sent, parserVars>>

\* variant: delete_one reports a deletion and removes nothing
DeleteOne_Kept(docs, mine) == {docs}

\* db.notes.delete_one(filter), mine being the documents the filter matches:
\* the collections it may leave
DeleteOne(docs, mine) == {docs \ {n} : n \in mine}

\* delete_one, and the 404 when deleted_count is 0
DeleteNote(p) ==
    /\ pc[p] = "idle"
    /\ NoResponsePending
    /\ \E tok \in tokens, note_id \in NoteIds :
        /\ Authenticated(tok)
        /\ loc' = [loc EXCEPT ![p] = [IdleLoc EXCEPT !.op = "delete_note",
                        !.user = tok.user_id, !.note_id = note_id]]
        /\ IF Matching(note_id, tok.user_id) = {}
           THEN /\ Respond(p, NotFound)
                /\ UNCHANGED notes
           ELSE /\ notes' \in DeleteOne(notes, Matching(note_id, tok.user_id))
                /\ Respond(p, [NoResp EXCEPT !.status = 200,
                                             !.detail = "Note deleted successfully"])
    /\ UNCHANGED <<users, tokens, uuidCtr, sent, parserVars>>

(***************************************************************************)
(* POST /ai/process                                                        *)
(***************************************************************************)
Actions == {"summarize", "suggest_tags", "insights", "translate"}

\* variant: an action the dispatch does not know runs the summary
KindOf_Lenient(action) ==
    CASE action = "suggest_tags" -> "tags"
      [] action = "insights" -> "insights"
      [] OTHER -> "summary"

\* the generate_* function an action runs
KindOf(action) ==
    CASE action = "summarize" -> "summary"
      [] action = "suggest_tags" -> "tags"
      [] action = "insights" -> "insights"
      [] OTHER -> "none"

\* find_one, the 404, the dispatch on request.action
AiProcess(p) ==
    /\ pc[p] = "idle"
    /\ NoResponsePending
    /\ \E tok \in tokens, note_id \in NoteIds, action \in Actions, found \in {None} \cup {Some(n) : n \in notes} :
        /\ Authenticated(tok)
        /\ FindOne(Matching(note_id, tok.user_id), found)
        /\ LET l == [IdleLoc EXCEPT !.op = "process_ai_request",
                        !.user = tok.user_id, !.note_id = note_id,
                        !.action = action]
           IN  IF found = None
               THEN /\ Respond(p, NotFound)
                    /\ loc' = [loc EXCEPT ![p] = l]
                    /\ UNCHANGED <<uuidCtr, sent>>
               ELSE IF KindOf(action) = "none"
               THEN /\ Respond(p, HttpError(400, "Invalid action"))
                    /\ loc' = [loc EXCEPT ![p] = l]
                    /\ UNCHANGED <<uuidCtr, sent>>
               ELSE /\ BeginExtraction(p, l, KindOf(action), found[1].content, "ai_llm")
                    /\ UNCHANGED resp
    /\ UNCHANGED <<users, notes, tokens, parserVars>>

\* result, given what send_message did
AiResult(action, reply) ==
    CASE action = "summarize" -> GenerateAiSummary(reply)
      [] action = "suggest_tags" -> JsonDumps(GenerateTagSuggestions(reply).value)
      [] action = "insights" -> GenerateInsights(reply)

\* the generate_* function returns; return AIResponse(result, action)
AiReply(p) ==
    /\ pc[p] = "ai_llm"
    /\ NoResponsePending
    /\ \E reply \in LlmReplies(KindOf(loc[p].action), loc[p].content) :
        /\ loc' = [loc EXCEPT ![p].llm_raised = reply.raised,
                              ![p].returned = @ + 1]
        /\ Respond(p, [NoResp EXCEPT !.status = 200,
                                     !.result = Some(AiResult(loc[p].action, reply)),
                                     !.action = loc[p].action])
    /\ sent' = Drop(loc[p].session)
    /\ UNCHANGED <<users, notes, tokens, uuidCtr, parserVars>>

(***************************************************************************)
(* SpecNotes: the notes and AI routes, one user being registered.          *)
(***************************************************************************)
RegisteredUser(id, email) ==
    [id |-> id, email |-> email, name |-> "n", created_at |-> "T1"]

NotesInit ==
    /\ users = {UserDict(RegisteredUser(1, "a@x.io"), "pw1")}
    /\ tokens = {CreateJwtToken(RegisteredUser(1, "a@x.io"))}
    /\ uuidCtr = 1
    /\ notes = {}
    /\ pc = [p \in Procs |-> "idle"]
    /\ loc = [p \in Procs |-> IdleLoc]
    /\ resp = [p \in Procs |-> NoResp]
    /\ sent = <<>>
    /\ ParserIdle

NotesNext ==
    \/ \E p \in Procs : CreateNote(p)
    \/ \E p \in Procs : CreateNoteSummary(p)
    \/ \E p \in Procs : CreateNoteInsert(p)
    \/ \E p \in Procs : GetNotes(p)
    \/ \E p \in Procs : GetNote(p)
    \/ \E p \in Procs : UpdateNoteFind(p)
    \/ \E p \in Procs : UpdateNoteSummary(p)
    \/ \E p \in Procs : UpdateNoteWrite(p)
    \/ \E p \in Procs : UpdateNoteReread(p)
    \/ \E p \in Procs : DeleteNote(p)
    \/ \E p \in Procs : AiProcess(p)
    \/ \E p \in Procs : AiReply(p)
    \/ \E p \in Procs : Deliver(p)

SpecNotes == NotesInit /\ [][NotesNext]_vars

(***************************************************************************)
(* SpecTwoUsers: the notes and AI routes, two users being registered and   *)
(* the first having created one short note.  The second user's id is a     *)
(* uuid outside those the requests of the model draw.                      *)
(***************************************************************************)
OtherUserId == MaxUuid + 1

\* the note POST /notes stored for user 1: title t1, content c100, tags x
FirstNote ==
    [id |-> 2, user_id |-> 1, title |-> "t1", content |-> "c100",
     summary |-> None, tags |-> <<"x">>, is_favorite |-> FALSE,
     created_at |-> "T1", updated_at |-> "T1"]

TwoUsersInit ==
    /\ users = {UserDict(RegisteredUser(1, "a@x.io"), "pw1"),
                UserDict(RegisteredUser(OtherUserId, "b@x.io"), "pw2")}
    /\ tokens = {CreateJwtToken(RegisteredUser(1, "a@x.io")),
                 CreateJwtToken(RegisteredUser(OtherUserId, "b@x.io"))}
    /\ uuidCtr = 2
    /\ notes = {PrepareForMongo(FirstNote)}
    /\ pc = [p \in Procs |-> "idle"]
    /\ loc = [p \in Procs |-> IdleLoc]
    /\ resp = [p \in Procs |-> NoResp]
    /\ sent = <<>>
    /\ ParserIdle

\* the user whose requests handler p runs: requests of one user running
\* together are the subject of SpecNotes, here the two handlers run the
\* requests of different users
Caller(p) == IF p = 1 THEN 1 ELSE OtherUserId

\* handler p begins a request of its user
Begins(p) == loc'[p].user = Caller(p)

TwoUsersNext ==
    \/ \E p \in Procs : CreateNote(p) /\ Begins(p)
    \/ \E p \in Procs : CreateNoteSummary(p)
    \/ \E p \in Procs : CreateNoteInsert(p)
    \/ \E p \in Procs : GetNotes(p) /\ Begins(p)
    \/ \E p \in Procs : GetNote(p) /\ Begins(p)
    \/ \E p \in Procs : UpdateNoteFind(p) /\ Begins(p)
    \/ \E p \in Procs : UpdateNoteSummary(p)
    \/ \E p \in Procs : UpdateNoteWrite(p)
    \/ \E p \in Procs : UpdateNoteReread(p)
    \/ \E p \in Procs : DeleteNote(p) /\ Begins(p)
    \/ \E p \in Procs : AiProcess(p) /\ Begins(p)
    \/ \E p \in Procs : AiReply(p)
    \/ \E p \in Procs : Deliver(p)

SpecTwoUsers == TwoUsersInit /\ [][TwoUsersNext]_vars

\* the positions at which a handler waits for chat.send_message
LlmWait == {"create_llm", "update_llm", "ai_llm"}

\* C1: when the LLM call raises, the request ends in an error and no note
\* holding the outcome of the failed call is stored or returned.
LlmFailureSurfaces ==
    /\ \A n \in notes : n.summary # Some(FailedSummary)
    /\ \A p \in Procs :
        pc[p] = "done" /\ loc[p].llm_raised =>
            /\ resp[p].status >= 400
            /\ resp[p].note = None
            /\ resp[p].result = None

\* C6: every chat receives exactly one send_message, every extraction that
\* returned made one call, and no two extractions in flight share a chat.
OneCallPerExtraction ==
    /\ \A s \in DOMAIN sent : sent[s] = 1
    /\ \A p \in Procs :
        /\ pc[p] \in LlmWait => loc[p].calls = loc[p].returned + 1
        /\ pc[p] \notin LlmWait => loc[p].calls = loc[p].returned
        /\ pc[p] \in LlmWait => loc[p].session[1] \in DOMAIN sent
    /\ \A p, q \in Procs :
        p # q /\ pc[p] \in LlmWait /\ pc[q] \in LlmWait =>
            loc[p].session # loc[q].session

\* two extractions are in flight at once
TwoExtractionsInFlight ==
    \E p, q \in Procs : p # q /\ pc[p] \in LlmWait /\ pc[q] \in LlmWait

\* C7: create_note calls the summary LLM exactly when the content is longer
\* than 100 characters: a shorter note is stored and returned with summary
\* None and no call, a longer one with the result of its one call.
CreateNoteSummaryRule ==
    \A p \in Procs :
        pc[p] = "done" /\ loc[p].op = "create_note" =>
            LET c == loc[p].data.content[1]
                n == resp[p].note[1]
            IN  /\ PrepareForMongo(n) \in notes
                /\ StrLen(c) <= 100 => n.summary = None /\ loc[p].calls = 0
                /\ StrLen(c) > 100 =>
                    /\ loc[p].calls = 1
                    /\ n.summary # None
                    /\ n.summary = loc[p].summary
                    /\ ~loc[p].llm_raised => n.summary = Some(LlmText("summary", c))

\* a note of 101 characters was created with the summary the LLM returned
CreateLongDone ==
    \E p \in Procs :
        /\ pc[p] = "done" /\ loc[p].op = "create_note"
        /\ StrLen(loc[p].data.content[1]) = 101
        /\ resp[p].note[1].summary = Some(LlmText("summary", "c101"))

\* C8: a successful POST /notes answers 201.
CreateNoteAnswers201 ==
    \A p \in Procs :
        pc[p] = "done" /\ loc[p].op = "create_note" => resp[p].status = 201

\* the credentials match no stored user
BadCredentials(email, password) ==
    ~\E u \in users : u.email = email /\ u.password_hash = HashPassword(password)

\* C9: login with an unregistered email, or with a registered email and a
\* wrong password, answers 400 "Invalid email or password", issues no token
\* and leaves the user store unchanged.
LoginRejectsBadCredentials ==
    [][\A p \in Procs :
        (/\ pc[p] = "idle" /\ pc'[p] = "done" /\ loc'[p].op = "login"
         /\ BadCredentials(loc'[p].email, loc'[p].password))
        => /\ resp'[p].status = 400
           /\ resp'[p].detail = "Invalid email or password"
           /\ resp'[p].token = None
           /\ tokens' = tokens
           /\ users' = users]_vars

\* a login with a registered email and a wrong password was rejected
WrongPasswordRejected ==
    \E p \in Procs :
        /\ pc[p] = "done" /\ loc[p].op = "login"
        /\ \E u \in users : u.email = loc[p].email
        /\ BadCredentials(loc[p].email, loc[p].password)
        /\ resp[p].status = 400

\* C10: the stored summary of a note is never the summary of a content the
\* note no longer has.
SummaryNeverStale ==
    \A n \in notes :
        n.summary # None /\ n.summary[1].kind = "summary" =>
            n.summary[1].of = n.content

\* the actions process_ai_request dispatches on
KnownActions == {"summarize", "suggest_tags", "insights"}

\* C11: process_ai_request answers 404 when the caller has no note of that
\* id, whatever the action; answers 400 "Invalid action" when the note exists
\* and the action is not summarize, suggest_tags or insights; makes no LLM
\* call in either case; a successful response echoes the requested action;
\* and no step of the handler changes the stored notes.
AiProcessContract ==
    [][\A p \in Procs :
        /\ (pc[p] = "idle" /\ loc'[p].op = "process_ai_request") =>
              LET l == loc'[p]
                  missing == Matching(l.note_id, l.user) = {}
                  quiet == /\ pc'[p] = "done"
                           /\ sent' = sent
                           /\ uuidCtr' = uuidCtr
                           /\ l.calls = 0
              IN  /\ notes' = notes
                  /\ missing => quiet /\ resp'[p] = NotFound
                  /\ (~missing /\ l.action \notin KnownActions) =>
                        quiet /\ resp'[p] = HttpError(400, "Invalid action")
                  /\ (~missing /\ l.action \in KnownActions) =>
                        /\ pc'[p] = "ai_llm"
                        /\ l.calls = 1
                        /\ resp'[p] = NoResp
        /\ (pc[p] = "ai_llm" /\ pc'[p] # "ai_llm") =>
              /\ pc'[p] = "done"
              /\ resp'[p].status = 200
              /\ resp'[p].action = loc[p].action
              /\ resp'[p].result # None
              /\ notes' = notes]_vars

\* an unknown action on an existing note was answered 400 with no LLM call
InvalidActionRejected ==
    \E p \in Procs :
        /\ pc[p] = "done" /\ loc[p].op = "process_ai_request"
        /\ loc[p].action = "translate"
        /\ Matching(loc[p].note_id, loc[p].user) # {}
        /\ resp[p] = HttpError(400, "Invalid action")
        /\ loc[p].calls = 0

\* the user handler p acts for in a step it takes
Acting(p) == IF pc[p] = "idle" THEN loc'[p].user ELSE loc[p].user

\* the stored notes that user u does not own
NotesOfOthers(docs, u) == {n \in docs : n.user_id # u}

\* C12: notes are isolated per user.  get_note, update_note, delete_note and
\* process_ai_request naming a note that another user owns answer 404; no
\* step a handler takes for a user changes, removes or adds a note of
\* another user; and get_notes returns only notes whose user_id is the
\* caller's, and every note it returns is a stored note.
NotesIsolated ==
    [][\A p \in Procs :
        /\ pc'[p] # pc[p] =>
              NotesOfOthers(notes', Acting(p)) = NotesOfOthers(notes, Acting(p))
        /\ (/\ pc[p] = "idle"
            /\ loc'[p].op \in {"get_note", "update_note", "delete_note",
                                "process_ai_request"}
            /\ \E n \in notes : n.id = loc'[p].note_id /\ n.user_id # loc'[p].user) =>
              /\ pc'[p] = "done"
              /\ resp'[p] = HttpError(404, "Note not found")
              /\ notes' = notes
              /\ sent' = sent
        /\ (pc[p] = "idle" /\ loc'[p].op = "get_notes") =>
              /\ pc'[p] = "done"
              /\ resp'[p].status = 200
              /\ \A i \in DOMAIN resp'[p].notes[1] :
                    /\ resp'[p].notes[1][i].user_id = loc'[p].user
                    /\ PrepareForMongo(resp'[p].notes[1][i]) \in notes]_vars

\* a user's delete_note naming a note of the other user was answered 404
\* while the other user holds that note and the caller holds one of its own
ForeignNoteRefused ==
    \E p \in Procs :
        /\ pc[p] = "done" /\ loc[p].op = "delete_note"
        /\ resp[p] = HttpError(404, "Note not found")
        /\ \E n \in notes : n.id = loc[p].note_id /\ n.user_id # loc[p].user
        /\ \E n \in notes : n.user_id = loc[p].user

\* C13: no two stored user records share an email, in every reachable state,
\* two register requests for one email interleaving at their awaits (lookup,
\* then insert) included.
EmailsUnique ==
    \A u, v \in users : u.email = v.email => u = v

\* C15: an update_note request ends by returning a Note or by answering 404,
\* in every interleaving: a delete_note of the same note between its write
\* and its re-read does not make it fail on the missing document.
UpdateEndsWithNoteOr404 ==
    \A p \in Procs :
        pc[p] = "done" /\ loc[p].op = "update_note" =>
            \/ resp[p].status = 200 /\ resp[p].note # None
            \/ resp[p] = NotFound

\* the value of a field after an update that supplied v (None: not supplied)
Supplied(v, before) == IF v = None THEN before ELSE v[1]

\* note n after update_note with body d wrote it: m
UpdatedAs(n, d, m) ==
    /\ m.id = n.id
    /\ m.user_id = n.user_id
    /\ m.created_at = n.created_at
    /\ m.title = Supplied(d.title, n.title)
    /\ m.content = Supplied(d.content, n.content)
    /\ m.tags = Supplied(d.tags, n.tags)
    /\ m.is_favorite = Supplied(d.is_favorite, n.is_favorite)
    /\ m.updated_at \in {IsoFormat(t) : t \in UpdateTimes}
    /\ IF d.content # None /\ StrLen(d.content[1]) > 100
       THEN m.summary \in {Some(LlmText("summary", d.content[1])),
                           Some(FailedSummary)}
       ELSE m.summary = n.summary

Owned(i, u) == {n \in notes : n.id = i /\ n.user_id = u}

\* C16: delete_note on the caller's existing note removes exactly that note
\* and changes no other; an id that names no note of the caller is answered
\* 404 by delete_note, get_note, update_note and process_ai_request, with the
\* store unchanged; and an id that was drawn and names no note never names
\* one again, so every such request after the deletion is answered 404.
DeleteNoteFrame ==
    [][/\ \A i \in 1..uuidCtr :
            (\A n \in notes : n.id # i) => (\A n \in notes' : n.id # i)
       /\ \A p \in Procs :
            (pc[p] = "idle" /\ loc'[p].op = "delete_note") =>
                LET mine == Owned(loc'[p].note_id, loc'[p].user)
                IN  /\ pc'[p] = "done"
                    /\ mine = {} =>
                          /\ resp'[p] = HttpError(404, "Note not found")
                          /\ notes' = notes
                    /\ mine # {} =>
                          /\ resp'[p].status = 200
                          /\ Cardinality(mine) = 1
                          /\ notes' = notes \ mine
       /\ \A p \in Procs :
            (/\ pc[p] = "idle"
             /\ loc'[p].op \in {"get_note", "update_note", "process_ai_request"}
             /\ Owned(loc'[p].note_id, loc'[p].user) = {}) =>
                /\ pc'[p] = "done"
                /\ resp'[p] = HttpError(404, "Note not found")
                /\ notes' = notes]_vars

\* a delete_note was answered 200, its note is gone and another note is kept
DeletedOneOfTwo ==
    \E p \in Procs :
        /\ pc[p] = "done" /\ loc[p].op = "delete_note"
        /\ resp[p].status = 200
        /\ loc[p].note_id \in 1..uuidCtr
        /\ \A n \in notes : n.id # loc[p].note_id
        /\ \E n \in notes : n.user_id = loc[p].user

(***************************************************************************)
(* SpecTags: the tag-suggestion path of process_ai_request on every raw    *)
(* text up to MaxRawLen characters.                                        *)
(***************************************************************************)
NoOut == [raised |-> FALSE, tags |-> <<>>, result |-> <<>>, status |-> 0]

TagsInit ==
    /\ ServerIdle
    /\ raw \in RawTexts
    /\ out = NoOut
    /\ stage = "reply"

\* tags = await generate_tag_suggestions(content), the LLM having replied raw
TagsParse ==
    /\ stage = "reply"
    /\ LET r == GenerateTagSuggestions(Returned(raw))
       IN  out' = [out EXCEPT !.raised = r.raised, !.tags = r.value]
    /\ stage' = IF out'.raised THEN "error" ELSE "tags"
    /\ UNCHANGED <<raw, serverVars>>

\* result = json.dumps(tags); return AIResponse(result=result, action=...)
TagsRespond ==
    /\ stage = "tags"
    /\ out' = [out EXCEPT !.result = JsonDumps(out.tags), !.status = 200]
    /\ stage' = "response"
    /\ UNCHANGED <<raw, serverVars>>

TagsNext == TagsParse \/ TagsRespond

SpecTags == TagsInit /\ [][TagsNext]_vars

\* C2: whatever text the LLM returned, generate_tag_suggestions raises nothing
\* and returns a list of strings, and process_ai_request (suggest_tags)
\* answers normally with the list serialised as a string.
TagsNeverFail ==
    /\ stage # "error"
    /\ ~out.raised
    /\ out.tags \in Seq(Seq(Alphabet))
    /\ stage = "response" =>
        /\ out.status = 200
        /\ out.result \in Seq(Alphabet)
        /\ JsonLoads(out.result).ok
        /\ JsonLoads(out.result).val.t = "list"

\* a bracketed span that is not JSON was answered normally
TagsMalformedAnswered ==
    /\ stage = "response"
    /\ RegexSearch(raw) # <<>>
    /\ ~JsonLoads(SubSeq(raw, RegexSearch(raw)[1], RegexSearch(raw)[2])).ok
    /\ out.status = 200

\* C3: the extracted tag sequence has at most 8 entries, each longer than
\* one character.
TagsBounded ==
    stage = "tags" =>
        /\ Len(out.tags) <= 8
        /\ \A i \in 1..Len(out.tags) : Len(out.tags[i]) > 1

(***************************************************************************)
(* ResponseParser of spec.md 4.2, on texts that are sequences of tokens:   *)
(* a label ("TITLE:"), the block marker ("TASK"), a blank (" ") or a word. *)
(***************************************************************************)
MaxTokens == 4
MaxSegments == 4

EventLabels == {"TITLE:", "DATE:", "TIME:", "DESCRIPTION:"}

TaskLabels == {"TITLE:", "DESCRIPTION:", "DEADLINE:", "PRIORITY:"}

Blank == " "

Marker == "TASK"

\* trims whitespace at both ends of a captured span
Trim(span) ==
    LET keep == {i \in 1..Len(span) : span[i] # Blank}
    IN  IF keep = {} THEN <<>> ELSE SubSeq(span, Min(keep), Max(keep))

HasLabel(text, label) == \E i \in 1..Len(text) : text[i] = label

\* the span after the first occurrence of label, up to the next recognized
\* label or the end of the text, trimmed
Capture(text, label, labels) ==
    LET i == Min({k \in 1..Len(text) : text[k] = label})
        stops == {k \in (i + 1)..Len(text) : text[k] \in labels}
        j == IF stops = {} THEN Len(text) + 1 ELSE Min(stops)
    IN  Trim(SubSeq(text, i + 1, j - 1))

\* variant: the default whatever the text holds
FieldOr_Ignored(text, label, labels, default) == default

\* single-record mode: a field, or the default when its label is not found
FieldOr(text, label, labels, default) ==
    IF HasLabel(text, label) THEN Capture(text, label, labels) ELSE default

\* the current date, formatted YYYY-MM-DD
DigitChars == <<"0", "1", "2", "3", "4", "5", "6", "7", "8", "9">>

Pad2(n) == <<DigitChars[(n \div 10) + 1], DigitChars[(n % 10) + 1]>>

Pad4(n) == Pad2(n \div 100) \o Pad2(n % 100)

FormatDate(d) == Pad4(d.y) \o <<"-">> \o Pad2(d.m) \o <<"-">> \o Pad2(d.d)

DefaultTitle == <<"Scheduled Event">>

DefaultTime == <<"09:00">>

\* ScheduleEvent: the four labeled fields with their defaults
ParseEvent(text, today) ==
    [title |-> FieldOr(text, "TITLE:", EventLabels, DefaultTitle),
     date |-> FieldOr(text, "DATE:", EventLabels, FormatDate(today)),
     time |-> FieldOr(text, "TIME:", EventLabels, DefaultTime),
     description |-> FieldOr(text, "DESCRIPTION:", EventLabels, <<>>)]

\* block segmentation: the text split at every marker
RECURSIVE SplitOn(_, _)
SplitOn(text, marker) ==
    LET at == {i \in 1..Len(text) : text[i] = marker}
    IN  IF at = {} THEN <<text>>
        ELSE LET i == Min(at)
             IN  <<SubSeq(text, 1, i - 1)>>
                    \o SplitOn(SubSeq(text, i + 1, Len(text)), marker)

IsBlank(seg) == \A i \in 1..Len(seg) : seg[i] = Blank

ToLower(w) ==
    CASE w \in {"none", "None", "NONE"} -> "none"
      [] w \in {"high", "HIGH"} -> "high"
      [] OTHER -> w

\* deadline: absent when the captured text is "none" in any casing
Deadline(seg) ==
    IF ~HasLabel(seg, "DEADLINE:") THEN <<>>
    ELSE LET v == Capture(seg, "DEADLINE:", TaskLabels)
         IN  IF Len(v) = 1 /\ ToLower(v[1]) = "none" THEN <<>> ELSE v

\* priority: medium when absent or unrecognized
Priority(seg) ==
    LET v == FieldOr(seg, "PRIORITY:", TaskLabels, <<"medium">>)
    IN  IF Len(v) = 1 /\ ToLower(v[1]) \in {"high", "medium", "low"}
        THEN <<ToLower(v[1])>> ELSE <<"medium">>

ParseTask(seg) ==
    [title |-> FieldOr(seg, "TITLE:", TaskLabels, <<>>),
     description |-> FieldOr(seg, "DESCRIPTION:", TaskLabels, <<>>),
     deadline |-> Deadline(seg),
     priority |-> Priority(seg)]

\* variant: any label makes a block valid
YieldsRecord_AnyLabel(seg) == \E l \in TaskLabels : HasLabel(seg, l)

\* the block-validity gate
YieldsRecord(seg) == ~IsBlank(seg) /\ HasLabel(seg, "TITLE:")

RECURSIVE ParseSegments(_)
ParseSegments(segs) ==
    IF segs = <<>> THEN <<>>
    ELSE IF YieldsRecord(Head(segs))
         THEN <<ParseTask(Head(segs))>> \o ParseSegments(Tail(segs))
         ELSE ParseSegments(Tail(segs))

\* multi-record mode: the segments after the preamble, in order
ParseBatch(text) == ParseSegments(Tail(SplitOn(text, Marker)))

(***************************************************************************)
(* SpecEvent: ScheduleEvent parsing of every token text up to MaxTokens.   *)
(***************************************************************************)
EventTokens == EventLabels \cup {Blank, "x", "y"}

EventTexts == UNION {[1..n -> EventTokens] : n \in 0..MaxTokens}

Days == {[y |-> 2026, m |-> 11, d |-> 5], [y |-> 2027, m |-> 1, d |-> 31]}

NoEvent == [title |-> <<>>, date |-> <<>>, time |-> <<>>, description |-> <<>>]

EventInit ==
    /\ ServerIdle
    /\ raw \in EventTexts
    /\ \E d \in Days : out = [today |-> d, record |-> NoEvent]
    /\ stage = "reply"

EventParse ==
    /\ stage = "reply"
    /\ out' = [out EXCEPT !.record = ParseEvent(raw, out.today)]
    /\ stage' = "event"
    /\ UNCHANGED <<raw, serverVars>>

EventNext == EventParse

SpecEvent == EventInit /\ [][EventNext]_vars

(***************************************************************************)
(* SpecBatch: TaskBatch parsing of a preamble followed by up to            *)
(* MaxSegments marked blocks.                                              *)
(***************************************************************************)
Preambles == {<<>>, <<"x">>, <<"TITLE:", "x">>}

SegBodies ==
    {<<>>, <<Blank>>, <<"TITLE:">>, <<"DESCRIPTION:", "x">>,
     <<"1", "TITLE:", "x">>,
     <<"2", "TITLE:", "y", "PRIORITY:", "HIGH">>,
     <<"TITLE:", "z", Blank, "DEADLINE:", "NONE">>}

BatchInit ==
    /\ ServerIdle
    /\ raw \in Preambles
    /\ out = [n |-> 0, records |-> <<>>]
    /\ stage = "reply"

\* the model's reply grows by one marked block
BatchAppend ==
    /\ stage = "reply"
    /\ out.n < MaxSegments
    /\ \E seg \in SegBodies : raw' = raw \o <<Marker>> \o seg
    /\ out' = [out EXCEPT !.n = out.n + 1]
    /\ UNCHANGED <<stage, serverVars>>

BatchParse ==
    /\ stage = "reply"
    /\ out' = [out EXCEPT !.records = ParseBatch(raw)]
    /\ stage' = "batch"
    /\ UNCHANGED <<raw, serverVars>>

BatchNext == BatchAppend \/ BatchParse

SpecBatch == BatchInit /\ [][BatchNext]_vars

\* v is what the grammar captures for label in text
CapturedAs(text, label, labels, v) ==
    \E i \in 1..Len(text) :
        /\ text[i] = label
        /\ \A k \in 1..(i - 1) : text[k] # label
        /\ \E stop \in (i + 1)..(Len(text) + 1) :
            /\ stop = Len(text) + 1 \/ text[stop] \in labels
            /\ \A k \in (i + 1)..(stop - 1) : text[k] \notin labels
            /\ \E a \in (i + 1)..stop : \E b \in (a - 1)..(stop - 1) :
                /\ v = SubSeq(text, a, b)
                /\ \A k \in (i + 1)..(a - 1) : text[k] = Blank
                /\ \A k \in (b + 1)..(stop - 1) : text[k] = Blank
                /\ v # <<>> => v[1] # Blank /\ v[Len(v)] # Blank

DigitValue(c) == (CHOOSE i \in 1..10 : DigitChars[i] = c) - 1

\* v reads YYYY-MM-DD and names the day d
IsIsoDateOf(v, d) ==
    /\ Len(v) = 10
    /\ v[5] = "-" /\ v[8] = "-"
    /\ \A i \in {1, 2, 3, 4, 6, 7, 9, 10} : \E k \in 1..10 : DigitChars[k] = v[i]
    /\ DigitValue(v[1]) * 1000 + DigitValue(v[2]) * 100
          + DigitValue(v[3]) * 10 + DigitValue(v[4]) = d.y
    /\ DigitValue(v[6]) * 10 + DigitValue(v[7]) = d.m
    /\ DigitValue(v[9]) * 10 + DigitValue(v[10]) = d.d

\* C5: in ScheduleEvent parsing a missing DATE:, TIME: or TITLE: label is
\* replaced by today's date (YYYY-MM-DD), "09:00" and "Scheduled Event", and
\* a field whose label is present keeps its captured value.
EventDefaults ==
    stage = "event" =>
        LET r == out.record
        IN  /\ IF HasLabel(raw, "DATE:")
               THEN CapturedAs(raw, "DATE:", EventLabels, r.date)
               ELSE IsIsoDateOf(r.date, out.today)
            /\ IF HasLabel(raw, "TIME:")
               THEN CapturedAs(raw, "TIME:", EventLabels, r.time)
               ELSE r.time = <<"09:00">>
            /\ IF HasLabel(raw, "TITLE:")
               THEN CapturedAs(raw, "TITLE:", EventLabels, r.title)
               ELSE r.title = <<"Scheduled Event">>

\* a text with a TIME: label and neither DATE: nor TITLE: was parsed
EventDefaulted ==
    /\ stage = "event"
    /\ ~HasLabel(raw, "DATE:") /\ ~HasLabel(raw, "TITLE:")
    /\ HasLabel(raw, "TIME:")
    /\ out.record.time = <<"x">>
    /\ out.record.title = <<"Scheduled Event">>

KthSmallest(S, k) == CHOOSE x \in S : Cardinality({y \in S : y < x}) = k - 1

\* the k-th marked block of text: from after the k-th marker to the next one
Block(text, k) ==
    LET M == {i \in 1..Len(text) : text[i] = Marker}
        from == KthSmallest(M, k) + 1
        to == IF k < Cardinality(M) THEN KthSmallest(M, k + 1) - 1 ELSE Len(text)
    IN  SubSeq(text, from, to)

BlockCount(text) == Cardinality({i \in 1..Len(text) : text[i] = Marker})

TitledBlocks(text) ==
    {k \in 1..BlockCount(text) : HasLabel(Block(text, k), "TITLE:")}

\* C4: in TaskBatch parsing a block yields a record exactly when it holds a
\* TITLE: label, and the records are in the order of their blocks.
BatchTitleGate ==
    stage = "batch" =>
        /\ Len(out.records) = Cardinality(TitledBlocks(raw))
        /\ \A j \in 1..Len(out.records) :
            CapturedAs(Block(raw, KthSmallest(TitledBlocks(raw), j)),
                       "TITLE:", TaskLabels, out.records[j].title)

\* four blocks, the second without a title: three records, in block order
BatchThreeOfFour ==
    /\ stage = "batch"
    /\ BlockCount(raw) = 4
    /\ TitledBlocks(raw) = {1, 3, 4}
    /\ Len(out.records) = 3
    /\ out.records[1].title = <<"x">>
    /\ out.records[2].title = <<"y">>
    /\ out.records[3].title = <<"z">>

====
